---- MODULE Spec2Model ----
(***************************************************************************)
(* A model of the snake movement engine of src/src/index.tsx: the          *)
(* playfield geometry, the turn queue (instructions), the tick (gameLoop), *)
(* the redraw (draw), the keyboard handler and the two host schedulers     *)
(* (setTimeout and requestAnimationFrame).                                 *)
(***************************************************************************)
EXTENDS Integers, Sequences, FiniteSets, TLC

\* ------------------------------------------------------------------ bounds
\* gameLoop runs at most MaxTicks times, at most MaxTurns arrow keys are
\* pressed, and at most MaxLoops callbacks of each scheduler are pending at
\* once, and at most MaxFrames animation frames are requested. The synthesis
\* of the first body is checked for 1..MaxSegments segments.
MaxTicks == 3
MaxTurns == 2
MaxLoops == 2
MaxFrames == 3
MaxSegments == 6

\* The redraw alone is checked on every pair of bodies of DiffSegments
\* segments.
DiffSegments == 2

\* Playfields <<clientWidth, clientHeight>>. The smaller side is in 10..19, so
\* that rect.size is 1 and a cell is exactly one pixel of the canvas. On the
\* narrow one the first body already wraps around the left edge and the head
\* crosses the right edge on its second move; on the wide one neither happens
\* within MaxTicks.
PlayfieldSizes == {<<10, 10>>}
WidePlayfieldSizes == {<<15, 10>>}

\* The playfields the synthesis of the first body is checked on.
SynthPlayfieldSizes == {<<w, h>> : w \in {10, 12, 15, 19}, h \in {10, 15}}

\* The width measureText gives the start text, as <<numerator, denominator>>:
\* 93.740234375 = 47995 / 512 with the default 10px sans-serif font.
StartTextWidths == {<<47995, 512>>}

\* What ctx.fillText("Press enter to play", ...) leaves on the canvas.  Which
\* pixels the glyphs cover is the host font's choice, so the text is kept on
\* the canvas as one element beside the ids of the filled cells.
StartText == <<"Press enter to play">>

\* let segments = 5
InitialSegments == 5

\* ------------------------------------------------------------------ values
Up == 0
Right == 1
Down == 2
Left == 3
Direction == {Up, Right, Down, Left}

Transforms(d) ==
  CASE d = Up -> <<0, 1>>
    [] d = Right -> <<1, 0>>
    [] d = Down -> <<0, -1>>
    [] d = Left -> <<-1, 0>>

\* null and undefined: the empty tuple. A non-null array a is held as <<a>>.
Null == <<>>
Undefined == <<>>
Some(a) == <<a>>

DELIMITER == ","
DigitChars == <<"0", "1", "2", "3", "4", "5", "6", "7", "8", "9">>

RECURSIVE DecStr(_)
DecStr(n) ==
  IF n < 10 THEN <<DigitChars[n + 1]>>
  ELSE DecStr(n \div 10) \o <<DigitChars[(n % 10) + 1]>>

NumStr(n) == IF n < 0 THEN <<"-">> \o DecStr(-n) ELSE DecStr(n)

\* coord.join(DELIMITER): the characters of "x,y".
toId(coord) == NumStr(coord[1]) \o <<DELIMITER>> \o NumStr(coord[2])

RECURSIVE Split(_, _)
Split(s, cur) ==
  IF s = <<>> THEN <<cur>>
  ELSE IF Head(s) = DELIMITER THEN <<cur>> \o Split(Tail(s), <<>>)
  ELSE Split(Tail(s), Append(cur, Head(s)))

DigitVals == [c \in {DigitChars[d + 1] : d \in 0..9} |->
                CHOOSE d \in 0..9 : DigitChars[d + 1] = c]
DigitVal(c) == DigitVals[c]

RECURSIVE ParseNat(_, _)
ParseNat(s, acc) ==
  IF s = <<>> THEN acc ELSE ParseNat(Tail(s), 10 * acc + DigitVal(Head(s)))

Number(s) ==
  IF s # <<>> /\ Head(s) = "-" THEN -ParseNat(Tail(s), 0) ELSE ParseNat(s, 0)

\* id?.split(DELIMITER).map(Number)
toCoord(id) ==
  IF id = Undefined THEN Undefined
  ELSE LET parts == Split(id, <<>>)
       IN [i \in 1..Len(parts) |-> Number(parts[i])]

VARIABLES
  width, height,      \* canvas.clientWidth, canvas.clientHeight
  startTextWidth,     \* ctx.measureText("Press enter to play").width, as
                      \* <<numerator, denominator>>
  segments,           \* the segment count
  playing,
  instructions,       \* the turn queue: <<direction, coord or Undefined>>
  prevSquares,        \* Null or Some(ids)
  nextSquares,        \* Null or Some(ids)
  gameLoopId,         \* the id of the last setTimeout, 0 before the first
  animationId,        \* the id of the last requestAnimationFrame
  timeouts,           \* pending setTimeout(gameLoop) ids, in firing order
  frames,             \* pending requestAnimationFrame(draw) ids, in order
  painted,            \* what the canvas shows: the ids of the filled cells,
                      \* and StartText while the start text is on it
  ticks,              \* how often gameLoop has run
  turns               \* how many arrow keys have been pressed

vars == <<width, height, startTextWidth, segments, playing, instructions,
          prevSquares, nextSquares, gameLoopId, animationId, timeouts, frames,
          painted, ticks, turns>>

\* ---------------------------------------------------------------- geometry
Min(a, b) == IF a < b THEN a ELSE b

\* Math.round(n / 2) of a natural n
RoundHalf(n) == (n + 1) \div 2

smaller == Min(width, height)
size == smaller \div 10
rect == [size |-> size, spacing |-> 1]
rectSize == rect.size + rect.spacing
head == <<RoundHalf(width), RoundHalf(height)>>

\* constrainToCanvas with the left edge wrapping to width, not width - rectSize.
constrainToCanvasFullWidth(c) ==
  LET x == c[1]
      y == c[2]
      rightEdge == width - rectSize
      bottomEdge == height - rectSize
      x1 == IF x < 0 THEN width ELSE x
      constrainedX == IF x > rightEdge THEN 0 ELSE x1
      y1 == IF y < 0 THEN bottomEdge ELSE y
      constrainedY == IF y > bottomEdge THEN 0 ELSE y1
  IN <<constrainedX, constrainedY>>

\* constrainToCanvas with the four checks chained by else: y is not looked at
\* once x has been corrected.
constrainToCanvasElseIf(c) ==
  LET x == c[1]
      y == c[2]
      rightEdge == width - rectSize
      bottomEdge == height - rectSize
  IN IF x < 0 THEN <<rightEdge, y>>
     ELSE IF x > rightEdge THEN <<0, y>>
     ELSE IF y < 0 THEN <<x, bottomEdge>>
     ELSE IF y > bottomEdge THEN <<x, 0>>
     ELSE <<x, y>>

constrainToCanvas(c) ==
  LET x == c[1]
      y == c[2]
      rightEdge == width - rectSize
      leftEdge == 0
      topEdge == 0
      bottomEdge == height - rectSize
      x1 == IF x < leftEdge THEN rightEdge ELSE x
      constrainedX == IF x > rightEdge THEN leftEdge ELSE x1
      y1 == IF y < topEdge THEN bottomEdge ELSE y
      constrainedY == IF y > bottomEdge THEN topEdge ELSE y1
  IN <<constrainedX, constrainedY>>

\* instruction = <<direction, coord>>; an undefined coord defaults to head
nextCoords(instruction) ==
  LET direction == instruction[1]
      c == IF instruction[2] = Undefined THEN head ELSE instruction[2]
      t == Transforms(direction)
  IN constrainToCanvas(<<c[1] + t[1] * rectSize, c[2] + t[2] * rectSize>>)

\* An undefined segment defaults to [null, null], and null compares as 0.
\* The instruction's coord is defined here: destructuring an undefined one
\* throws before the comparison (see find).
passed(segment, it) ==
  LET x == IF segment = Undefined THEN 0 ELSE segment[1]
      y == IF segment = Undefined THEN 0 ELSE segment[2]
      direction == it[1]
      instructionX == it[2][1]
      instructionY == it[2][2]
  IN CASE direction = Up -> y > instructionY
       [] direction = Right -> x > instructionX
       [] direction = Down -> y < instructionY
       [] direction = Left -> x < instructionX

\* -------------------------------------------------------------------- tick
\* gameLoop, first run: the reducer of lines 121-128, from zero-based index i
\* on; next[i - 1] is undefined for i = 0.
\* The reducer without the skip of index 0: it appends at every index.
RECURSIVE reduceSquaresNoSkip(_, _)
reduceSquaresNoSkip(next, i) ==
  IF i >= segments THEN next
  ELSE reduceSquaresNoSkip(
         Append(next, nextCoords(<<Left, next[Len(next)]>>)), i + 1)

RECURSIVE reduceSquares(_, _)
reduceSquares(next, i) ==
  IF i >= segments THEN next
  ELSE LET prev == IF i >= 1 /\ i <= Len(next) THEN next[i] ELSE Undefined
       IN IF prev = Undefined THEN reduceSquares(next, i + 1)
          ELSE reduceSquares(Append(next, nextCoords(<<Left, prev>>)), i + 1)

initialSquares ==
  LET coords == reduceSquares(<<head>>, 0)
  IN [i \in 1..Len(coords) |-> toId(coords[i])]

\* toCoord(prevSquares?.[segmentIdx]) for the one-based index idx
segmentOf(prev, idx) ==
  toCoord(IF prev # Null /\ idx <= Len(prev[1]) THEN prev[1][idx] ELSE Undefined)

\* instructions.find((it) => !passed(segment, it)) from index j on: the index
\* found, 0 when none is found, -1 when passed throws on an undefined coord.
RECURSIVE find(_, _, _)
find(segment, instrs, j) ==
  IF j > Len(instrs) THEN 0
  ELSE IF instrs[j][2] = Undefined THEN -1
  ELSE IF ~passed(segment, instrs[j]) THEN j
  ELSE find(segment, instrs, j + 1)

\* The selection falling back to the most recent instruction, not to
\* instructions[0].
selectedLast(segment, instrs) ==
  LET f == find(segment, instrs, 1) IN IF f = 0 THEN Len(instrs) ELSE f

\* The index of the instruction of a segment (find || instructions[0]); -1
\* when the lookup throws.
selected(segment, instrs) ==
  LET f == find(segment, instrs, 1) IN IF f = 0 THEN 1 ELSE f

\* The instruction index of every segment, in the order of the loop.
selections(prev, instrs) ==
  [i \in 1..segments |-> selected(segmentOf(prev, i), instrs)]

\* How many segments the loop handles before a lookup throws (all of them
\* when none does).
handled(sel) ==
  LET bad == {i \in 1..Len(sel) : sel[i] = -1}
  IN IF bad = {} THEN Len(sel)
     ELSE (CHOOSE i \in bad : \A k \in bad : i <= k) - 1

\* appliedInstructions: the indices of the instructions the loop selected.
applied(sel) == {sel[i] : i \in 1..handled(sel)}

\* The squares the loop pushed.
movedSquares(prev, instrs, sel) ==
  [i \in 1..handled(sel) |->
     toId(nextCoords(<<instrs[sel[i]][1], segmentOf(prev, i)>>))]

RemoveAt(s, i) == [k \in 1..(Len(s) - 1) |-> IF k < i THEN s[k] ELSE s[k + 1]]

\* instructions.forEach(removeUnusedInstructions) from the one-based index i
\* on: list holds <<instruction, applied?>> pairs, n is its length when
\* forEach began; splice shifts the rest of the list under the iteration.
\* removeUnusedInstructions splicing at i - 1, one index too low.
RECURSIVE removeUnusedInstructionsOffByOne(_, _, _)
removeUnusedInstructionsOffByOne(list, i, n) ==
  IF i > n \/ i > Len(list) THEN list
  ELSE IF list[i][2] THEN removeUnusedInstructionsOffByOne(list, i + 1, n)
  ELSE IF i = 1 THEN removeUnusedInstructionsOffByOne(list, i + 1, n)
  ELSE removeUnusedInstructionsOffByOne(RemoveAt(list, i - 1), i + 1, n)

RECURSIVE removeUnusedInstructions(_, _, _)
removeUnusedInstructions(list, i, n) ==
  IF i > n \/ i > Len(list) THEN list
  ELSE IF list[i][2] THEN removeUnusedInstructions(list, i + 1, n)
  ELSE IF i = 1 THEN removeUnusedInstructions(list, i + 1, n)
  ELSE removeUnusedInstructions(RemoveAt(list, i), i + 1, n)

prunedInstructions(instrs, used) ==
  LET marked == [k \in 1..Len(instrs) |-> <<instrs[k], k \in used>>]
      kept == removeUnusedInstructions(marked, 1, Len(instrs))
  IN [k \in 1..Len(kept) |-> kept[k][1]]

\* The body of gameLoop up to its scheduling: the new nextSquares and
\* instructions, and whether it threw.
gameLoopRun(prev, next, instrs) ==
  IF prev = Null /\ next = Null
  THEN [next |-> Some(initialSquares), instructions |-> instrs, threw |-> FALSE]
  ELSE LET sel == selections(prev, instrs)
           threw == handled(sel) < segments
       IN [next |-> Some(movedSquares(prev, instrs, sel)),
           instructions |-> IF threw THEN instrs
                            ELSE prunedInstructions(instrs, applied(sel)),
           threw |-> threw]

\* ------------------------------------------------------------------ redraw
Ids(squares) == IF squares = Null THEN {} ELSE {squares[1][i] : i \in 1..Len(squares[1])}

\* squares?.includes(square)
includes(squares, square) ==
  squares # Null /\ \E i \in 1..Len(squares[1]) : squares[1][i] = square

\* clearRemovedSquares clearing every square of prev, also those next includes.
RECURSIVE clearRemovedSquaresAll(_, _, _, _)
clearRemovedSquaresAll(prev, next, canvas, i) ==
  IF prev = Null \/ i > Len(prev[1]) THEN canvas
  ELSE clearRemovedSquaresAll(prev, next, canvas \ {prev[1][i]}, i + 1)

\* prevSquares?.forEach(clearRemovedSquares) from the one-based index i on:
\* the canvas after clearRect of every square of prev that next does not
\* include.
RECURSIVE clearRemovedSquares(_, _, _, _)
clearRemovedSquares(prev, next, canvas, i) ==
  IF prev = Null \/ i > Len(prev[1]) THEN canvas
  ELSE IF includes(next, prev[1][i])
       THEN clearRemovedSquares(prev, next, canvas, i + 1)
       ELSE clearRemovedSquares(prev, next, canvas \ {prev[1][i]}, i + 1)

\* nextSquares.forEach(drawAddedSquares) from the one-based index i on: the
\* canvas after fillRect of every square of next that prev does not include
\* (a rectangle of size 0 fills nothing).
RECURSIVE drawAddedSquares(_, _, _, _)
drawAddedSquares(prev, next, canvas, i) ==
  IF i > Len(next[1]) THEN canvas
  ELSE IF includes(prev, next[1][i]) \/ rect.size = 0
       THEN drawAddedSquares(prev, next, canvas, i + 1)
       ELSE drawAddedSquares(prev, next, canvas \cup {next[1][i]}, i + 1)

\* draw painting the whole previous body again when there is no new body.
drawRunRepaints(prev, next, canvas) ==
  IF next # Null
  THEN [prev |-> next, next |-> Null,
        painted |-> (canvas \ (Ids(prev) \ Ids(next))) \cup (Ids(next) \ Ids(prev))]
  ELSE [prev |-> prev, next |-> next, painted |-> canvas \cup Ids(prev)]

\* draw without the hand-over prevSquares = nextSquares: the body drawn is
\* dropped.
drawRunDropsBody(prev, next, canvas) ==
  IF next # Null
  THEN [prev |-> prev, next |-> Null,
        painted |-> (canvas \ (Ids(prev) \ Ids(next))) \cup (Ids(next) \ Ids(prev))]
  ELSE [prev |-> prev, next |-> next, painted |-> canvas]

\* The body of draw up to its scheduling. A cell is one pixel (rect.size = 1),
\* so the canvas is the set of the filled cells.
drawRun(prev, next, canvas) ==
  IF next # Null
  THEN [prev |-> next, next |-> Null,
        painted |-> drawAddedSquares(prev, next,
                      clearRemovedSquares(prev, next, canvas, 1), 1)]
  ELSE [prev |-> prev, next |-> next, painted |-> canvas]

\* ctx.clearRect(width / 2 - startTextWidth / 2, height / 2 - 10,
\* startTextWidth, 20): the filled cells that lie in the rectangle are cleared
\* (coordinates doubled and multiplied by the denominator of startTextWidth, to
\* stay in the integers).  The start text goes with them: fillText drew it from
\* the same x over the same width, in a 10px font on the baseline height / 2.
clearStartText(canvas) ==
  LET n == startTextWidth[1]
      d == startTextWidth[2]
  IN {id \in canvas \ {StartText} :
        LET c == toCoord(id)
        IN ~(/\ d * width - n <= 2 * d * c[1]
             /\ 2 * d * (c[1] + rect.size) <= d * width + n
             /\ height - 20 <= 2 * c[2]
             /\ 2 * (c[2] + rect.size) <= height + 20)}

\* -------------------------------------------------------------- schedulers
\* The id setTimeout / requestAnimationFrame returns: the host counts its
\* calls from 1, each scheduler on its own, and never gives an id again. Every
\* call of the program stores the id in gameLoopId / animationId, so last, the
\* id stored there (0 before the first call), is the id given last.
NewId(last) == last + 1

RECURSIVE Cancel(_, _)
Cancel(pending, id) ==
  IF pending = <<>> THEN <<>>
  ELSE IF Head(pending) = id THEN Tail(pending)
  ELSE <<Head(pending)>> \o Cancel(Tail(pending), id)

\* The state after the module has loaded, on a playfield of sizes with a
\* segment count of counts: the last statement of the module has drawn the
\* start text.
Loaded(sizes, counts) ==
  /\ \E p \in sizes : width = p[1] /\ height = p[2]
  /\ startTextWidth \in StartTextWidths
  /\ segments \in counts
  /\ playing = FALSE
  /\ instructions = <<<<Right, head>>>>
  /\ prevSquares = Null
  /\ nextSquares = Null
  /\ gameLoopId = 0
  /\ animationId = 0
  /\ timeouts = <<>>
  /\ frames = <<>>
  /\ painted = {StartText}
  /\ ticks = 0
  /\ turns = 0

Init == Loaded(PlayfieldSizes, {InitialSegments})

\* handleKeyEvents, e.key === "Enter": starts both loops when not playing
\* (draw() and gameLoop() run inside the handler); nothing when playing.
KeyEnter ==
  IF playing THEN UNCHANGED vars
  ELSE
    /\ ticks < MaxTicks
    /\ Len(timeouts) < MaxLoops
    /\ Len(frames) < MaxLoops
    /\ animationId < MaxFrames
    /\ LET d == drawRun(prevSquares, nextSquares, clearStartText(painted))
           g == gameLoopRun(d.prev, d.next, instructions)
           f == NewId(animationId)
           t == NewId(gameLoopId)
       IN /\ playing' = TRUE
          /\ painted' = d.painted
          /\ prevSquares' = d.prev
          /\ nextSquares' = g.next
          /\ instructions' = g.instructions
          /\ animationId' = f
          /\ frames' = Append(frames, f)
          /\ IF g.threw
             THEN UNCHANGED <<gameLoopId, timeouts>>
             ELSE gameLoopId' = t /\ timeouts' = Append(timeouts, t)
    /\ ticks' = ticks + 1
    /\ UNCHANGED <<width, height, startTextWidth, segments, turns>>

\* handleKeyEvents, an arrow key: pushes the turn with the coord of the first
\* square of nextSquares || prevSquares, undefined when there is none.
KeyArrow(direction) ==
  /\ turns < MaxTurns
  /\ LET squares == IF nextSquares # Null THEN nextSquares ELSE prevSquares
         first == IF squares # Null /\ Len(squares[1]) >= 1
                  THEN squares[1][1] ELSE Undefined
     IN instructions' = Append(instructions, <<direction, toCoord(first)>>)
  /\ turns' = turns + 1
  /\ UNCHANGED <<width, height, startTextWidth, segments, playing, prevSquares,
                 nextSquares, gameLoopId, animationId, timeouts, frames,
                 painted, ticks>>

\* handleKeyEvents, e.key === "Escape"
KeyEscape ==
  /\ playing' = FALSE
  /\ UNCHANGED <<width, height, startTextWidth, segments, instructions,
                 prevSquares, nextSquares, gameLoopId, animationId, timeouts,
                 frames, painted, ticks, turns>>

\* The oldest pending setTimeout fires: gameLoop runs, then schedules the
\* next timer when playing and else clears the timer gameLoopId names.
GameLoopTimer ==
  /\ timeouts # <<>>
  /\ ticks < MaxTicks
  /\ LET rest == Tail(timeouts)
         g == gameLoopRun(prevSquares, nextSquares, instructions)
         t == NewId(gameLoopId)
     IN /\ nextSquares' = g.next
        /\ instructions' = g.instructions
        /\ IF g.threw THEN timeouts' = rest /\ UNCHANGED gameLoopId
           ELSE IF playing THEN gameLoopId' = t /\ timeouts' = Append(rest, t)
           ELSE timeouts' = Cancel(rest, gameLoopId) /\ UNCHANGED gameLoopId
  /\ ticks' = ticks + 1
  /\ UNCHANGED <<width, height, startTextWidth, segments, playing, prevSquares,
                 animationId, frames, painted, turns>>

\* The frame callback requesting the next frame whether or not playing.
DrawFrameAlwaysRequests ==
  /\ frames # <<>>
  /\ animationId < MaxFrames
  /\ LET rest == Tail(frames)
         d == drawRun(prevSquares, nextSquares, painted)
         f == NewId(animationId)
     IN /\ prevSquares' = d.prev
        /\ nextSquares' = d.next
        /\ painted' = d.painted
        /\ animationId' = f
        /\ frames' = Append(rest, f)
  /\ UNCHANGED <<width, height, startTextWidth, segments, playing,
                 instructions, gameLoopId, timeouts, ticks, turns>>

\* The oldest pending animation frame callback runs: draw paints the diff,
\* then requests the next frame when playing and else cancels the frame
\* animationId names.
DrawFrame ==
  /\ frames # <<>>
  /\ playing => animationId < MaxFrames
  /\ LET rest == Tail(frames)
         d == drawRun(prevSquares, nextSquares, painted)
         f == NewId(animationId)
     IN /\ prevSquares' = d.prev
        /\ nextSquares' = d.next
        /\ painted' = d.painted
        /\ IF playing THEN animationId' = f /\ frames' = Append(rest, f)
           ELSE frames' = Cancel(rest, animationId) /\ UNCHANGED animationId
  /\ UNCHANGED <<width, height, startTextWidth, segments, playing,
                 instructions, gameLoopId, timeouts, ticks, turns>>

Next ==
  \/ KeyEnter
  \/ \E direction \in Direction : KeyArrow(direction)
  \/ KeyEscape
  \/ GameLoopTimer
  \/ DrawFrame

Spec == Init /\ [][Next]_vars

\* The first start alone, for every segment count in 1..MaxSegments: the
\* synthesis of the first body and its first redraws.
SynthInit == Loaded(SynthPlayfieldSizes, 1..MaxSegments)

SynthNext ==
  \/ ticks = 0 /\ KeyEnter
  \/ DrawFrame

SynthSpec == SynthInit /\ [][SynthNext]_vars

\* The program on a playfield wide enough for the first body not to wrap.
WideInit == Loaded(WidePlayfieldSizes, {InitialSegments})

WideSpec == WideInit /\ [][Next]_vars

\* The program that is started and never stopped: one tick loop and one
\* redraw loop, and turns of every direction at any time.
PlayNext ==
  \/ KeyEnter
  \/ \E direction \in Direction : KeyArrow(direction)
  \/ GameLoopTimer
  \/ DrawFrame

PlaySpec == Init /\ [][PlayNext]_vars

\* The steps of GameLoopTimer, told by what they change: of the steps of Next
\* it is GameLoopTimer alone that adds a tick and leaves playing as it is, and
\* it can be taken whenever a timer is pending and the tick bound allows.
GameLoopTimerStep ==
  /\ timeouts # <<>>
  /\ ticks < MaxTicks
  /\ ticks' = ticks + 1
  /\ playing' = playing

\* The steps of the program with one arrow key only: which direction a turn
\* has plays no part in the scheduling of the two loops (a turn pressed before
\* the first start still makes a tick throw).
LiveNext ==
  \/ KeyEnter
  \/ KeyArrow(Up)
  \/ KeyEscape
  \/ GameLoopTimer
  \/ DrawFrame

\* The program with its schedulers: the host runs every pending timer and
\* every pending animation frame callback in the end.
LiveSpec ==
  Init /\ [][LiveNext]_vars /\ WF_ticks(GameLoopTimerStep) /\ WF_vars(DrawFrame)

\* The redraw alone, on any previous and next body: the bodies of
\* DiffSegments segments on the head's cell and its two neighbours on the row
\* (none or equal bodies among them), on an empty canvas, a full one, and one
\* that shows the previous body.
DiffCells ==
  {toId(head), toId(nextCoords(<<Left, head>>)), toId(nextCoords(<<Right, head>>))}

DiffBodies == {Some(b) : b \in [1..DiffSegments -> DiffCells]}

DiffInit ==
  /\ \E p \in PlayfieldSizes : width = p[1] /\ height = p[2]
  /\ startTextWidth \in StartTextWidths
  /\ segments = DiffSegments
  /\ playing \in BOOLEAN
  /\ instructions = <<<<Right, head>>>>
  /\ prevSquares \in DiffBodies \cup {Null}
  /\ nextSquares \in DiffBodies
  /\ gameLoopId = 0
  /\ animationId = 1
  /\ timeouts = <<>>
  /\ frames = <<1>>
  /\ painted \in {{}, DiffCells, Ids(prevSquares)}
  /\ ticks = 1
  /\ turns = 0

DiffNext == DrawFrame

DiffSpec == DiffInit /\ [][DiffNext]_vars

\* ------------------------------------------------------------- properties
\* The squares last computed: nextSquares until a redraw has taken them.
LatestSquares == IF nextSquares # Null THEN nextSquares ELSE prevSquares
LatestBody == IF LatestSquares = Null THEN <<>> ELSE LatestSquares[1]

\* The i-th id of squares, Undefined when there is none.
At(squares, i) ==
  IF squares # Null /\ i >= 1 /\ i <= Len(squares[1]) THEN squares[1][i]
  ELSE Undefined

Full(squares) == squares # Null /\ Len(squares[1]) = segments

\* A step in which gameLoop runs on a redrawn, complete body: prevSquares is
\* the body the previous tick computed.
SteadyTick == ticks' = ticks + 1 /\ nextSquares = Null /\ Full(prevSquares)

Anchored == \A k \in 1..Len(instructions) : instructions[k][2] # Undefined

\* C1: once stopped, nothing but a new turn command changes the body or the
\* turn queue: a step between two not-playing states that does not lengthen
\* the queue leaves the last computed body and the queue as they were.
C1_StopFreezesBodyAndQueue ==
  [][(~playing /\ ~playing' /\ Len(instructions') <= Len(instructions))
       => (LatestBody' = LatestBody /\ instructions' = instructions)]_vars

\* C2: follow-the-leader: a tick on a redrawn, complete body puts every
\* segment i >= 1 on the cell segment i - 1 had in the previous body.
C2_FollowTheLeader ==
  [][SteadyTick =>
       \A i \in 2..segments : At(nextSquares', i) = At(prevSquares, i - 1)]_vars

\* The head moves Right (the turns before the last one send it Right) and the
\* last turn of the queue is an Up turn anchored at the head's cell, the only
\* turn anchored there.
UpIssuedAtHead ==
  LET n == Len(instructions)
      c == toCoord(At(prevSquares, 1))
  IN /\ n >= 2
     /\ Anchored
     /\ instructions[n] = <<Up, c>>
     /\ \A k \in 2..(n - 1) : instructions[k][2] # c
     /\ instructions[selected(c, SubSeq(instructions, 1, n - 1))][1] = Right

\* C3: an Up turn issued at the cell c of a head moving Right takes effect at
\* the very next tick: the head is then at step(c, Up).
C3_TurnTakesEffectNextTick ==
  [][(SteadyTick /\ UpIssuedAtHead) =>
       toCoord(At(nextSquares', 1)) =
         nextCoords(<<Up, toCoord(At(prevSquares, 1))>>)]_vars

\* C4: whatever redraws ran in between, a tick computes the next body from
\* the body the tick before it computed.
C4_TickReadsLatestBody ==
  [][(ticks' = ticks + 1 /\ LatestSquares # Null) =>
       nextSquares' = gameLoopRun(LatestSquares, Null, instructions).next]_vars

\* C5: no turn without a defined issuedAtCell is ever in the queue (a turn
\* command issued before a body exists is not enqueued).
C5_NoTurnWithoutAnchor == Anchored

\* C6: no tick faults: every tick leaves a full next body.
C6_TickNeverFaults == nextSquares # Null => Len(nextSquares[1]) = segments

RECURSIVE KeepIndices(_, _, _)
KeepIndices(s, keep, k) ==
  IF k > Len(s) THEN <<>>
  ELSE (IF k \in keep THEN <<s[k]>> ELSE <<>>) \o KeepIndices(s, keep, k + 1)

\* C7: prune is complete: after a tick the queue holds the oldest turn and
\* the turns a segment selected in that tick, and no other.
C7_PruneIsComplete ==
  [][(SteadyTick /\ Anchored) =>
       instructions' =
         KeepIndices(instructions,
                     {1} \cup applied(selections(prevSquares, instructions)), 1)]_vars

\* C8: the queue is never empty and its element 0 is the initial Right turn
\* anchored at the initial head.
C8_OldestTurnStays ==
  Len(instructions) >= 1 /\ instructions[1] = <<Right, head>>

\* Every turn issued has been pruned again: the queue is down to element 0.
C8_Witness == ticks >= 2 /\ turns >= 1 /\ Len(instructions) = 1

\* C9: the first body has exactly segments cells, starts at the configured
\* head, and every further cell is one step Left of the cell before it.
C9_InitialBodyTrailsLeft ==
  ticks = 1 =>
    /\ Len(LatestBody) = segments
    /\ toCoord(LatestBody[1]) = head
    /\ \A i \in 2..Len(LatestBody) :
         toCoord(LatestBody[i]) = nextCoords(<<Left, toCoord(LatestBody[i - 1])>>)

\* The first body of the shipped segment count has been synthesized.
C9_Witness ==
  ticks = 1 /\ segments = InitialSegments /\ Len(LatestBody) = InitialSegments

InBounds(c) ==
  LET rightEdge == width - rectSize
      bottomEdge == height - rectSize
  IN /\ 0 <= c[1] /\ c[1] <= rightEdge
     /\ 0 <= c[2] /\ c[2] <= bottomEdge

\* Every cell within the playfield.
PlayfieldCells == (0..(width - rectSize)) \X (0..(height - rectSize))

\* C10: every cell of every body is within the playfield on both axes, and
\* the step of every cell of the playfield in every direction is within it.
\* Every body is the last computed one in the state its tick leaves; the
\* steps depend on the playfield alone and are checked before the first tick.
C10_CellsInBounds ==
  /\ \A i \in 1..Len(LatestBody) : InBounds(toCoord(LatestBody[i]))
  /\ ticks = 0 =>
       \A c \in PlayfieldCells, d \in Direction : InBounds(nextCoords(<<d, c>>))

\* A tick has taken a segment over the right edge: it re-entered at x = 0.
C10_Witness ==
  ticks >= 2 /\ \E id \in Ids(LatestSquares) : toCoord(id)[1] = 0

\* nextCoords applied n times to the cell c in the direction d.
RECURSIVE Steps(_, _, _)
Steps(c, d, n) == IF n = 0 THEN c ELSE Steps(nextCoords(<<d, c>>), d, n - 1)

\* The extent of the playfield on the axis of the direction d.
Extent(d) == IF d \in {Left, Right} THEN width ELSE height

\* C11: the wrap is cyclic: from every cell a body occupies (all of them cells
\* within the playfield), Extent(d) / rectSize steps in any one direction d
\* lead back to the cell.
C11_WrapIsCyclic ==
  \A i \in 1..Len(LatestBody), d \in Direction :
    LET c == toCoord(LatestBody[i])
    IN Steps(c, d, Extent(d) \div rectSize) = c

\* No turn command has been issued: the queue holds the initial Right alone.
NoTurnIssued == turns = 0 /\ instructions = <<<<Right, head>>>>

\* Every segment of the complete body squares is one step Left of the segment
\* before it, as in the first body.
InFormation(squares) ==
  \A i \in 2..segments :
    toCoord(At(squares, i)) = nextCoords(<<Left, toCoord(At(squares, i - 1))>>)

\* C12: with no turn issued beyond the initial Right, a tick on a redrawn,
\* complete body in formation (also a tick that crosses the right edge) keeps
\* all segments on one row, moves every segment one rectSize to the right
\* modulo the width, and keeps consecutive segments one step apart.
C12_StraightRunKeepsFormation ==
  [][(SteadyTick /\ NoTurnIssued /\ InFormation(prevSquares)) =>
       /\ \A i \in 1..segments :
            LET p == toCoord(At(prevSquares, i))
                n == toCoord(At(nextSquares', i))
            IN /\ n[2] = toCoord(At(nextSquares', 1))[2]
               /\ n[2] = p[2]
               /\ n[1] = (p[1] + rectSize) % width
       /\ InFormation(nextSquares')]_vars

\* The raw cells a step from a cell of the playfield can give, and beyond.
RawCells == ((-rectSize)..width) \X ((-rectSize)..height)

\* One coordinate v, wrapped on an axis of extent edge.
WrappedAxis(v, edge) ==
  IF v < 0 THEN edge - rectSize ELSE IF v > edge - rectSize THEN 0 ELSE v

\* C13: wrap corrects each axis on its own: x < 0 becomes width - rectSize,
\* x > width - rectSize becomes 0, the same for y with height, and a
\* coordinate within the playfield is left as it is (the raw cells depend on
\* the playfield alone and are checked before the first tick); and a segment
\* at x = width - rectSize that a tick moves Right is then at x = 0 on the
\* same row (nextSquares is the result of a tick on prevSquares whenever both
\* exist; with no turn issued every segment moves Right).
C13_WrapPerAxis ==
  /\ ticks = 0 =>
       \A c \in RawCells :
         constrainToCanvas(c)
           = <<WrappedAxis(c[1], width), WrappedAxis(c[2], height)>>
  /\ (turns = 0 /\ prevSquares # Null /\ nextSquares # Null) =>
       \A i \in 1..Len(nextSquares[1]) :
         LET p == toCoord(At(prevSquares, i))
         IN (p # Undefined /\ p[1] = width - rectSize)
              => toCoord(nextSquares[1][i]) = <<0, p[2]>>

\* A tick has moved a segment from the right edge to x = 0 on its row.
C13_Witness ==
  /\ turns = 0 /\ prevSquares # Null /\ nextSquares # Null
  /\ \E i \in 1..Len(nextSquares[1]) :
       LET p == toCoord(At(prevSquares, i))
       IN /\ p # Undefined
          /\ p[1] = width - rectSize
          /\ toCoord(nextSquares[1][i]) = <<0, p[2]>>

\* C14: the first body is synthesized once: gameLoop synthesizes it when
\* neither prevSquares nor nextSquares exists, and after the first tick one
\* of the two exists in every state, whatever starts, stops, ticks and
\* redraws follow.
C14_ExtendingOnce == ticks >= 1 => (prevSquares # Null \/ nextSquares # Null)

\* A stop and a second start have happened (two tick loops run), and the tick
\* after them moved the body instead of synthesizing it again.
C14_Witness ==
  /\ ticks >= 3
  /\ Len(timeouts) = 2
  /\ Full(LatestSquares)
  /\ LatestBody # initialSquares

\* Stopped, with the pending timers within the ticks the model still runs.
Stopped == ~playing /\ ticks + Len(timeouts) <= MaxTicks

NothingScheduled == timeouts = <<>> /\ frames = <<>>

\* C15: after a stop both loops cease: unless a start follows, no timer and no
\* frame callback is pending in the end, and while stopped no step schedules
\* one.
C15_LoopsCease ==
  /\ Stopped ~> (playing \/ NothingScheduled)
  /\ [][(~playing /\ ~playing') =>
          (Len(timeouts') <= Len(timeouts) /\ Len(frames') <= Len(frames))]_vars

\* Both loops have run and have ceased after a stop.
C15_Witness == ~playing /\ ticks >= 2 /\ NothingScheduled /\ painted # {}

\* C16: a redraw that applies a body clears exactly the keys of the previous
\* body that are not keys of the next one and fills exactly the keys of the
\* next body that are not keys of the previous one, whatever the canvas shows;
\* for two identical bodies it clears and fills nothing.
C16_DiffApplied ==
  [][(nextSquares # Null /\ nextSquares' = Null) =>
       LET removed == Ids(prevSquares) \ Ids(nextSquares)
           added == Ids(nextSquares) \ Ids(prevSquares)
       IN /\ painted' = (painted \ removed) \cup added
          /\ prevSquares = nextSquares => painted' = painted]_vars

\* A body has been drawn over a canvas that showed more than the previous
\* body: the cells of neither body are still painted.
C16_Witness ==
  /\ nextSquares = Null
  /\ prevSquares # Null
  /\ painted # Ids(prevSquares)
  /\ Ids(prevSquares) \subseteq painted

\* The queue indices of the turns the segment has not passed.
NotPassed(segment, instrs) ==
  {k \in 1..Len(instrs) : instrs[k][2] # Undefined /\ ~passed(segment, instrs[k])}

\* The index selectTurn gives: the oldest turn not passed, the oldest turn of
\* all when every turn is passed.
OldestNotPassed(segment, instrs) ==
  LET open == NotPassed(segment, instrs)
  IN IF open = {} THEN 1 ELSE CHOOSE k \in open : \A j \in open : k <= j

\* C17: every segment a tick moves is moved in the direction of the oldest
\* queued turn it has not passed, and of queue index 0 when it has passed all
\* of them: it then moves Right. (The tick of a start runs on the body its
\* redraw has just handed over, the tick of a timer on prevSquares as it is.)
C17_TurnSelection ==
  [][(ticks' = ticks + 1 /\ prevSquares' # Null) =>
       \A i \in 1..Len(nextSquares'[1]) :
         i <= Len(prevSquares'[1]) =>
           LET segment == toCoord(prevSquares'[1][i])
               k == OldestNotPassed(segment, instructions)
           IN /\ nextSquares'[1][i]
                   = toId(nextCoords(<<instructions[k][1], segment>>))
              /\ NotPassed(segment, instructions) = {} =>
                   nextSquares'[1][i] = toId(nextCoords(<<Right, segment>>))]_vars

\* The one turn issued is no Right turn and was queued when the tick ran (the
\* tick moved a segment in its direction), and the tick has moved a segment
\* that had passed both queued turns Right.
C17_Witness ==
  /\ prevSquares # Null /\ nextSquares # Null
  /\ Anchored
  /\ turns = 1 /\ Len(instructions) = 2
  /\ instructions[2][1] # Right
  /\ \E j \in 1..Len(nextSquares[1]) :
       /\ j <= Len(prevSquares[1])
       /\ nextSquares[1][j]
            = toId(nextCoords(<<instructions[2][1], toCoord(prevSquares[1][j])>>))
  /\ \E i \in 1..Len(nextSquares[1]) :
       /\ i <= Len(prevSquares[1])
       /\ NotPassed(toCoord(prevSquares[1][i]), instructions) = {}
       /\ nextSquares[1][i] = toId(nextCoords(<<Right, toCoord(prevSquares[1][i])>>))

\* C18: start and stop are idempotent for the scheduling: at most one timer
\* of gameLoop and at most one frame callback of draw are pending in any
\* state.
C18_OneLoopEach == Len(timeouts) <= 1 /\ Len(frames) <= 1

\* A step of a frame callback: pending callbacks change and no tick runs (the
\* step of a start runs a tick).
FrameStep == ticks' = ticks /\ frames' # frames

\* C19: a redraw with no new body since the redraw before it is a no-op: draw
\* gives back the previous body and the canvas as they are, and the step of a
\* frame callback leaves canvas, previous body, turn queue and playing flag
\* unchanged; a redraw that applies a body hands it over, so that no later
\* redraw applies it again.
C19_RedrawNoOp ==
  /\ [](LET d == drawRun(prevSquares, Null, painted)
        IN d.prev = prevSquares /\ d.next = Null /\ d.painted = painted)
  /\ [][(FrameStep /\ nextSquares = Null) =>
          /\ painted' = painted
          /\ prevSquares' = prevSquares
          /\ nextSquares' = Null
          /\ instructions' = instructions
          /\ playing' = playing]_vars
  /\ [][(FrameStep /\ nextSquares # Null) =>
          (prevSquares' = nextSquares /\ nextSquares' = Null)]_vars

\* After the start the first frame callback has drawn the body of the start's
\* tick, and the second has run after it with no new body to draw and before
\* any timer has fired: it has requested the third frame.
C19_Witness ==
  /\ playing
  /\ ticks = 1
  /\ frames = <<3>>
  /\ animationId = 3
  /\ nextSquares = Null
  /\ prevSquares # Null

\* C20: rendering consistency: right after every redraw of a frame callback
\* the painted cells are the cells of the body computed last, whatever ticks,
\* redraws and key events came before.
C20_PaintedIsLatestBody ==
  [][FrameStep => painted' = Ids(LatestSquares')]_vars

====
